---- MODULE Spec2Model ----
(***************************************************************************)
(* Model of the task domain of task-manager-patterns: TaskBuilder          *)
(* (core/domain/task/builder/task.builder.ts), TaskEntity and its update() *)
(* and the TasksContainer task list.                                       *)
(*                                                                         *)
(* Strings are sequences of runs <<char, count>> so that length and trim   *)
(* are computed, not assumed.  Optional fields are <<>> (undefined) or     *)
(* <<v>>.  Dates are integers on the millisecond clock `now`; NaNDate is   *)
(* an Invalid Date.  Objects that the code shares by reference live in     *)
(* `heap` and are named by their index.                                    *)
(***************************************************************************)
EXTENDS Integers, Sequences, FiniteSets, TLC

\* ---- bounds of the model ----
MaxBuilders == 2
MaxBuilderCalls == 4
MaxDrafts == 1
MaxEntities == 1
MaxTasks == 1
MaxCalls == 5
MaxEntityCalls == 4

\* ---- limits written in the code ----
MaxTitleLen == 100
MaxDescriptionLen == 1000
MaxTagNameLen == 50

\* ---- strings ----
Str(ch, n) == IF n = 0 THEN <<>> ELSE << <<ch, n>> >>

EmptyStr == <<>>

RECURSIVE StrLen(_)
StrLen(s) == IF s = <<>> THEN 0 ELSE s[1][2] + StrLen(Tail(s))

RECURSIVE TrimStart(_)
TrimStart(s) ==
  IF s = <<>> THEN <<>>
  ELSE IF s[1][1] = " " THEN TrimStart(Tail(s)) ELSE s

RECURSIVE TrimEnd(_)
TrimEnd(s) ==
  IF s = <<>> THEN <<>>
  ELSE IF s[Len(s)][1] = " " THEN TrimEnd(SubSeq(s, 1, Len(s) - 1)) ELSE s

Trim(s) == TrimEnd(TrimStart(s))

\* JavaScript truthiness of a string: only "" is falsy.
Truthy(s) == s # EmptyStr

\* ---- optional values ----
None == <<>>
Some(v) == <<v>>

\* ---- enumerations ----
TaskPriority == {"LOW", "MEDIUM", "HIGH", "URGENT"}
TaskStatus == {"TODO", "IN_PROGRESS", "REVIEW", "DONE"}

\* ---- dates ----
NaNDate == -1
NotADate == -2

\* A date later than every clock reading of the model.
FarFuture == MaxCalls + MaxBuilderCalls + MaxEntityCalls

\* ---- inputs the callers supply ----
CreatorIds == {EmptyStr, Str("u", 2)}

TitleInputs ==
  {EmptyStr, Str(" ", 3), Str(" ", 1) \o Str("a", 3) \o Str(" ", 1),
   Str("a", MaxTitleLen), Str("a", MaxTitleLen + 1)}

DescriptionInputs == {EmptyStr, Str("d", MaxDescriptionLen), Str("d", MaxDescriptionLen + 1)}

PriorityInputs == TaskPriority \cup {"BOGUS"}

DueDateInputs == {NotADate, NaNDate, 0, 1, FarFuture}

AssigneeInputs == {EmptyStr, Str(" ", 2), Str("u", 2)}

Tag(id, name) == [id |-> id, name |-> name]

OkTag == Tag(Str("1", 1), Str("o", 2))

\* An argument of withTags: isArray is what Array.isArray answers for it.
TagsInputIds == 1..7
TagsInput(i) ==
  CASE i = 1 -> [isArray |-> FALSE, items |-> <<>>]
    [] i = 2 -> [isArray |-> TRUE, items |-> <<>>]
    [] i = 3 -> [isArray |-> TRUE, items |-> <<OkTag>>]
    [] i = 4 -> [isArray |-> TRUE, items |-> <<OkTag, Tag(Str("2", 1), Str("x", MaxTagNameLen))>>]
    [] i = 5 -> [isArray |-> TRUE, items |-> <<Tag(Str("1", 1), Str("x", MaxTagNameLen + 1))>>]
    [] i = 6 -> [isArray |-> TRUE, items |-> <<OkTag, Tag(EmptyStr, Str("n", 1))>>]
    [] OTHER -> [isArray |-> TRUE, items |-> <<Tag(Str("1", 1), EmptyStr), OkTag>>]

\* ---- state ----
VARIABLES
  now,       \* the millisecond clock read by new Date()
  nextId,    \* the next value crypto.randomUUID() returns (fresh each call)
  heap,      \* the Task objects allocated by TaskBuilder constructors
  builders,  \* builders[b] is the reference held in builder b's this.task
  handles,   \* the references build() has returned to callers, in order
  tasks,     \* the TasksContainer task list (React state)
  entities,  \* the TaskEntity objects
  origin,    \* origin[e]: where the Task given to entity e's constructor came from
  calls,     \* number of calls made and milliseconds passed so far
  last       \* the latest call: operation, target and outcome

vars == <<now, nextId, heap, builders, handles, tasks, entities, origin, calls, last>>

NoError == "none"

Call(op, target, error, ret) ==
  [op |-> op, target |-> target, error |-> error, ret |-> ret]

\* ---- TaskBuilder validators: the message thrown, or NoError ----

\* validateTitle testing `!title` where the code tests `!title.trim()`.
validateTitle_NoTrim(title) ==
  IF ~Truthy(title) THEN "Title cannot be empty"
  ELSE IF StrLen(title) > MaxTitleLen THEN "Title must not exceed 100 characters"
  ELSE NoError

validateTitle(title) ==
  IF ~Truthy(Trim(title)) THEN "Title cannot be empty"
  ELSE IF StrLen(title) > MaxTitleLen THEN "Title must not exceed 100 characters"
  ELSE NoError

validateDescription(description) ==
  IF StrLen(description) > MaxDescriptionLen
  THEN "Description must not exceed 1000 characters"
  ELSE NoError

validatePriority(priority) ==
  IF priority \notin TaskPriority THEN "Invalid priority value" ELSE NoError

validateDueDate(date) ==
  IF date = NotADate \/ date = NaNDate THEN "Invalid due date"
  ELSE IF date < now THEN "Due date cannot be in the past"
  ELSE NoError

validateAssignee(assigneeId) ==
  IF ~Truthy(Trim(assigneeId)) THEN "Assignee ID cannot be empty" ELSE NoError

\* forEach visits the tags in order and the first failing tag throws.
RECURSIVE validateEachTag(_)
validateEachTag(items) ==
  IF items = <<>> THEN NoError
  ELSE IF ~Truthy(items[1].id) \/ ~Truthy(items[1].name)
       THEN "Each tag must have an id and name"
  ELSE IF StrLen(items[1].name) > MaxTagNameLen
       THEN "Tag name must not exceed 50 characters"
  ELSE validateEachTag(Tail(items))

validateTags(tags) ==
  IF ~tags.isArray THEN "Tags must be an array" ELSE validateEachTag(tags.items)

\* validateRequiredFields without its creatorId test.
validateRequiredFields_TitleOnly(task) ==
  IF task.title = None \/ ~Truthy(task.title[1]) THEN "Title is required" ELSE NoError

validateRequiredFields(task) ==
  IF task.title = None \/ ~Truthy(task.title[1]) THEN "Title is required"
  ELSE IF ~Truthy(task.creatorId) THEN "Creator ID is required"
  ELSE NoError

\* ---- TaskBuilder ----
Init ==
  /\ now = 0
  /\ nextId = 1
  /\ heap = <<>>
  /\ builders = <<>>
  /\ handles = <<>>
  /\ tasks = <<>>
  /\ entities = <<>>
  /\ origin = <<>>
  /\ calls = 0
  /\ last = Call("init", 0, NoError, 0)

\* new TaskBuilder(creatorId): the two new Date() are separate clock reads,
\* the clock may advance by `d` between them.
NewTaskBuilder(creatorId, d) ==
  /\ heap' = Append(heap,
        [id |-> nextId, title |-> None, description |-> None,
         status |-> "TODO", priority |-> "MEDIUM", dueDate |-> None,
         tags |-> None, createdAt |-> now, updatedAt |-> now + d,
         assigneeId |-> None, creatorId |-> creatorId])
  /\ builders' = Append(builders, Len(heap) + 1)
  /\ nextId' = nextId + 1
  /\ now' = now + d
  /\ calls' = calls + 1
  /\ last' = Call("new", Len(builders) + 1, NoError, Len(builders) + 1)
  /\ UNCHANGED <<handles, tasks, entities, origin>>

\* What every with* method does once its validator has answered `error`:
\* throw, or store the value in this.task and return this.
Store(op, b, error, field, value) ==
  /\ b \in 1..Len(builders)
  /\ IF error # NoError
     THEN /\ last' = Call(op, b, error, 0)
          /\ heap' = heap
     ELSE /\ last' = Call(op, b, NoError, b)
          /\ heap' = [heap EXCEPT ![builders[b]][field] = value]
  /\ calls' = calls + 1
  /\ UNCHANGED <<now, nextId, builders, handles, tasks, entities, origin>>

withTitle(b, title) ==
  Store("withTitle", b, validateTitle(title), "title", Some(title))

withDescription(b, description) ==
  Store("withDescription", b, validateDescription(description),
        "description", Some(description))

withPriority(b, priority) ==
  Store("withPriority", b, validatePriority(priority), "priority", priority)

withDueDate(b, date) ==
  Store("withDueDate", b, validateDueDate(date), "dueDate", Some(date))

withAssignee(b, assigneeId) ==
  Store("withAssignee", b, validateAssignee(assigneeId),
        "assigneeId", Some(assigneeId))

withTags(b, i) ==
  Store("withTags", b, validateTags(TagsInput(i)), "tags", Some(TagsInput(i).items))

\* build() giving the Task a newly generated id on every call.
build_RegeneratesId(b) ==
  /\ b \in 1..Len(builders)
  /\ LET error == validateRequiredFields(heap[builders[b]]) IN
     IF error # NoError
     THEN /\ handles' = handles
          /\ heap' = heap
          /\ nextId' = nextId
          /\ last' = Call("build", b, error, 0)
     ELSE /\ handles' = Append(handles, builders[b])
          /\ heap' = [heap EXCEPT ![builders[b]].id = nextId]
          /\ nextId' = nextId + 1
          /\ last' = Call("build", b, NoError, builders[b])
  /\ calls' = calls + 1
  /\ UNCHANGED <<now, builders, tasks, entities, origin>>

\* build(): validateRequiredFields, then `return this.task as Task`: the
\* caller receives the reference to the draft itself.
build(b) ==
  /\ b \in 1..Len(builders)
  /\ LET error == validateRequiredFields(heap[builders[b]]) IN
     IF error # NoError
     THEN /\ handles' = handles
          /\ last' = Call("build", b, error, 0)
     ELSE /\ handles' = Append(handles, builders[b])
          /\ last' = Call("build", b, NoError, builders[b])
  /\ calls' = calls + 1
  /\ UNCHANGED <<now, nextId, heap, builders, tasks, entities, origin>>

\* ---- TasksContainer ----
FormTitles == {Str(" ", 3), Str("a", 5), Str("a", MaxTitleLen + 1)}

\* handleCreateTask(title, priority): a Task object literal appended to the
\* list; the clock may advance by `d` between its two new Date().
handleCreateTask(title, priority, d) ==
  /\ tasks' = Append(tasks,
        [id |-> nextId, title |-> Some(title), description |-> None,
         status |-> "TODO", priority |-> priority, dueDate |-> None,
         tags |-> None, createdAt |-> now, updatedAt |-> now + d,
         assigneeId |-> None, creatorId |-> Str("u", 6)])
  /\ nextId' = nextId + 1
  /\ now' = now + d
  /\ calls' = calls + 1
  /\ last' = Call("handleCreateTask", Len(tasks) + 1, NoError, 0)
  /\ UNCHANGED <<heap, builders, handles, entities, origin>>

\* ---- TaskEntity ----
TaskFields ==
  {"id", "title", "description", "status", "priority", "dueDate", "tags",
   "createdAt", "updatedAt", "assigneeId", "creatorId"}

\* new TaskEntity(task): every field copied from `task`.
TaskEntity(task, from) ==
  /\ entities' = Append(entities, [f \in TaskFields |-> task[f]])
  /\ origin' = Append(origin, from)
  /\ calls' = calls + 1
  /\ last' = Call("TaskEntity", Len(entities) + 1, NoError, Len(entities) + 1)
  /\ UNCHANGED <<now, nextId, heap, builders, handles, tasks>>

\* Objects a caller passes to update().  The parameter type leaves out id,
\* createdAt and creatorId, but an object held in a variable is accepted with
\* extra properties, so they can be present at run time.
UpdateIds == 1..7
Updates(i) ==
  CASE i = 1 -> [status |-> "DONE"]
    [] i = 2 -> [title |-> Some(EmptyStr)]
    [] i = 3 -> [title |-> Some(Str("n", 3)), priority |-> "LOW"]
    [] i = 4 -> [updatedAt |-> 0, status |-> "REVIEW"]
    [] i = 5 -> [status |-> "DONE", id |-> 0]
    [] i = 6 -> [status |-> "IN_PROGRESS", createdAt |-> FarFuture]
    [] OTHER -> [assigneeId |-> Some(Str(" ", 2)), creatorId |-> EmptyStr]

\* Object.assign(target, source): every own property of source is written.
ObjectAssign(target, source) ==
  [f \in DOMAIN target |-> IF f \in DOMAIN source THEN source[f] ELSE target[f]]

\* update() without its `this.updatedAt = new Date()`.
update_KeepsAssignedUpdatedAt(e, i) ==
  /\ e \in 1..Len(entities)
  /\ entities' = [entities EXCEPT ![e] = ObjectAssign(entities[e], Updates(i))]
  /\ calls' = calls + 1
  /\ last' = Call("update", e, NoError, 0)
  /\ UNCHANGED <<now, nextId, heap, builders, handles, tasks, origin>>

\* update(updates): Object.assign(this, updates); this.updatedAt = new Date().
update(e, i) ==
  /\ e \in 1..Len(entities)
  /\ entities' = [entities EXCEPT
        ![e] = [ObjectAssign(entities[e], Updates(i)) EXCEPT !.updatedAt = now]]
  /\ calls' = calls + 1
  /\ last' = Call("update", e, NoError, 0)
  /\ UNCHANGED <<now, nextId, heap, builders, handles, tasks, origin>>

\* ---- the clock ----
\* A millisecond passes between two calls.
Tick ==
  /\ now' = now + 1
  /\ calls' = calls + 1
  /\ UNCHANGED <<nextId, heap, builders, handles, tasks, entities, origin, last>>

\* ---- the builder on its own ----
\* The calls a caller can make on builders, while `calls` is below maxCalls
\* and there are at most maxBuilders builders.
BuilderCalls(maxBuilders, maxCalls) ==
  \/ \E c \in CreatorIds, d \in 0..1 :
       calls < maxCalls /\ Len(builders) < maxBuilders /\ NewTaskBuilder(c, d)
  \/ \E b \in 1..Len(builders), t \in TitleInputs :
       calls < maxCalls /\ withTitle(b, t)
  \/ \E b \in 1..Len(builders), t \in DescriptionInputs :
       calls < maxCalls /\ withDescription(b, t)
  \/ \E b \in 1..Len(builders), p \in PriorityInputs :
       calls < maxCalls /\ withPriority(b, p)
  \/ \E b \in 1..Len(builders), t \in DueDateInputs :
       calls < maxCalls /\ withDueDate(b, t)
  \/ \E b \in 1..Len(builders), a \in AssigneeInputs :
       calls < maxCalls /\ withAssignee(b, a)
  \/ \E b \in 1..Len(builders), i \in TagsInputIds :
       calls < maxCalls /\ withTags(b, i)
  \/ \E b \in 1..Len(builders) :
       calls < maxCalls /\ build(b)

NextBuilder ==
  \/ BuilderCalls(MaxBuilders, MaxBuilderCalls)
  \/ calls < MaxBuilderCalls /\ Tick

SpecBuilder == Init /\ [][NextBuilder]_vars

\* ---- the container and the entities ----
ContainerCalls(maxCalls) ==
  \/ \E t \in FormTitles, p \in TaskPriority, d \in 0..1 :
       calls < maxCalls /\ Len(tasks) < MaxTasks /\ handleCreateTask(t, p, d)
  \/ \E k \in 1..Len(tasks) :
       calls < maxCalls /\ Len(entities) < MaxEntities /\ TaskEntity(tasks[k], "list")
  \/ \E e \in 1..Len(entities), i \in UpdateIds :
       calls < maxCalls /\ update(e, i)

NextEntity ==
  \/ ContainerCalls(MaxEntityCalls)
  \/ calls < MaxEntityCalls /\ Tick

SpecEntity == Init /\ [][NextEntity]_vars

\* ---- the whole program: builder, container and entities ----
Next ==
  \/ BuilderCalls(MaxDrafts, MaxCalls)
  \/ ContainerCalls(MaxCalls)
  \/ \E h \in 1..Len(handles) :
       calls < MaxCalls /\ Len(entities) < MaxEntities /\ TaskEntity(heap[handles[h]], "build")
  \/ calls < MaxCalls /\ Tick

Spec == Init /\ [][Next]_vars

\* ======================= properties =======================

\* The step is a call (or a clock tick, which leaves `last` as it was).
CallStep == calls' = calls + 1

\* The step can be a call of `op` on object `target`.
Did(op, target) == CallStep /\ last'.op = op /\ last'.target = target

Failed == last'.error # NoError /\ heap' = heap /\ builders' = builders
Returned(b) == last'.error = NoError /\ last'.ret = b

\* The arguments section 4.1 of the specification calls invalid.
TitleRejected(t) == Trim(t) = EmptyStr \/ StrLen(t) > MaxTitleLen
DescriptionRejected(t) == StrLen(t) > MaxDescriptionLen
PriorityRejected(p) == p \notin {"LOW", "MEDIUM", "HIGH", "URGENT"}
DueDateRejected(t) == t \in {NotADate, NaNDate} \/ t < now
AssigneeRejected(a) == Trim(a) = EmptyStr
TagsRejected(i) ==
  \/ ~TagsInput(i).isArray
  \/ \E k \in 1..Len(TagsInput(i).items) :
       LET tag == TagsInput(i).items[k] IN
       tag.id = EmptyStr \/ tag.name = EmptyStr \/ StrLen(tag.name) > MaxTagNameLen

\* C1: once build() has returned a Task, no later call changes any field of
\* that Task (the returned Task is a snapshot independent of the builder).
C1_BuildReturnsSnapshot ==
  [][\A h \in 1..Len(handles) : heap'[handles[h]] = heap[handles[h]]]_vars

\* C2: a with* call with an invalid argument fails with a validation error
\* and leaves every draft as it was; with a valid argument it returns the
\* builder it was called on.
C2_WithValidatesBeforeMutating ==
  [][CallStep =>
       LET b == last'.target IN
       /\ last'.op = "withTitle" =>
            \A t \in TitleInputs :
              withTitle(b, t) => IF TitleRejected(t) THEN Failed ELSE Returned(b)
       /\ last'.op = "withDescription" =>
            \A t \in DescriptionInputs :
              withDescription(b, t) => IF DescriptionRejected(t) THEN Failed ELSE Returned(b)
       /\ last'.op = "withPriority" =>
            \A p \in PriorityInputs :
              withPriority(b, p) => IF PriorityRejected(p) THEN Failed ELSE Returned(b)
       /\ last'.op = "withDueDate" =>
            \A t \in DueDateInputs :
              withDueDate(b, t) => IF DueDateRejected(t) THEN Failed ELSE Returned(b)
       /\ last'.op = "withAssignee" =>
            \A a \in AssigneeInputs :
              withAssignee(b, a) => IF AssigneeRejected(a) THEN Failed ELSE Returned(b)
       /\ last'.op = "withTags" =>
            \A i \in TagsInputIds :
              withTags(b, i) => IF TagsRejected(i) THEN Failed ELSE Returned(b)]_vars

\* withTitle has just failed on a draft that holds a title stored by an
\* earlier, valid withTitle, and the draft still holds that title.
C2_Witness ==
  /\ last.op = "withTitle"
  /\ last.error # NoError
  /\ heap[builders[last.target]].title = Some(Str("a", MaxTitleLen))

\* The field constraints of section 3 of the specification.
FieldConstraints(t) ==
  /\ t.title # None
  /\ Trim(t.title[1]) # EmptyStr
  /\ StrLen(t.title[1]) <= MaxTitleLen
  /\ t.description # None => StrLen(t.description[1]) <= MaxDescriptionLen
  /\ t.status \in {"TODO", "IN_PROGRESS", "REVIEW", "DONE"}
  /\ t.priority \in {"LOW", "MEDIUM", "HIGH", "URGENT"}
  /\ t.assigneeId # None => Trim(t.assigneeId[1]) # EmptyStr
  /\ t.tags # None =>
       \A k \in 1..Len(t.tags[1]) :
         /\ t.tags[1][k].id # EmptyStr
         /\ t.tags[1][k].name # EmptyStr
         /\ StrLen(t.tags[1][k].name) <= MaxTagNameLen
  /\ t.creatorId # EmptyStr

\* C3: every Task returned by build(), and every entity made from one, after
\* any sequence of update() calls, satisfies the field constraints.
C3_ObservableTasksValid ==
  /\ \A h \in 1..Len(handles) : FieldConstraints(heap[handles[h]])
  /\ \A e \in 1..Len(entities) : origin[e] = "build" => FieldConstraints(entities[e])

\* C4: build() fails exactly when the draft has no title or the creatorId is
\* empty, and otherwise returns the Task; the constructor never fails, and no
\* with* call fails because of the creatorId.
C4_BuildChecksRequiredFields ==
  [][/\ \A b \in 1..Len(builders) :
          Did("build", b) /\ build(b) =>
            LET draft == heap[builders[b]] IN
            /\ (last'.error # NoError) <=> (draft.title = None \/ draft.creatorId = EmptyStr)
            /\ last'.error = NoError =>
                 handles' = Append(handles, last'.ret) /\ heap'[last'.ret] = draft
            /\ last'.error # NoError => handles' = handles
     /\ \A c \in CreatorIds, d \in 0..1 : Did("new", Len(builders) + 1) /\ NewTaskBuilder(c, d) => last'.error = NoError
     /\ last'.op \notin {"build", "init"} => last'.error # "Creator ID is required"
     /\ last'.op \notin {"build", "init"} => last'.error # "Title is required"]_vars

\* build() has just failed for the creatorId alone: the builder was made with
\* an empty creatorId and withTitle succeeded on it.
C4_Witness ==
  /\ last.op = "build"
  /\ last.error = "Creator ID is required"
  /\ heap[builders[last.target]].title # None
  /\ heap[builders[last.target]].creatorId = EmptyStr

\* C5: every Task in the container's list and every Task wrapped by an
\* entity was returned by build().
C5_EveryTaskWasBuilt ==
  /\ \A k \in 1..Len(tasks) : \E h \in 1..Len(handles) : heap[handles[h]] = tasks[k]
  /\ \A e \in 1..Len(entities) : origin[e] = "build"

\* C6: update(updates) never changes id, createdAt or creatorId, and leaves
\* every field absent from updates, other than updatedAt, as it was.
C6_UpdateFrame ==
  [][\A e \in 1..Len(entities), i \in UpdateIds :
       Did("update", e) /\ update(e, i) =>
         /\ entities'[e].id = entities[e].id
         /\ entities'[e].createdAt = entities[e].createdAt
         /\ entities'[e].creatorId = entities[e].creatorId
         /\ \A f \in TaskFields \ (DOMAIN Updates(i) \cup {"updatedAt"}) :
              entities'[e][f] = entities[e][f]]_vars

\* C7: updatedAt >= createdAt for every draft, every Task in the list and
\* every entity.
C7_UpdatedNotBeforeCreated ==
  /\ \A r \in 1..Len(heap) : heap[r].updatedAt >= heap[r].createdAt
  /\ \A k \in 1..Len(tasks) : tasks[k].updatedAt >= tasks[k].createdAt
  /\ \A e \in 1..Len(entities) : entities[e].updatedAt >= entities[e].createdAt

\* C8 as stated: every update() sets updatedAt to the current time, strictly
\* greater than the updatedAt the entity had before the call.
C8_UpdatedAtStrictlyIncreases ==
  [][\A e \in 1..Len(entities), i \in UpdateIds :
       Did("update", e) /\ update(e, i) =>
         /\ entities'[e].updatedAt = now
         /\ entities'[e].updatedAt > entities[e].updatedAt]_vars

\* C8 as amended: every update() sets updatedAt to the current time, which is
\* greater than or equal to the updatedAt the entity had before the call.
C8_UpdatedAtNeverDecreases ==
  [][\A e \in 1..Len(entities), i \in UpdateIds :
       Did("update", e) /\ update(e, i) =>
         /\ entities'[e].updatedAt = now
         /\ entities'[e].updatedAt >= entities[e].updatedAt]_vars

\* update() has just run on an entity after the clock moved past the
\* entity's creation time.
C8_Witness ==
  /\ last.op = "update"
  /\ entities[last.target].updatedAt = now
  /\ entities[last.target].updatedAt > entities[last.target].createdAt

\* C9: a freshly constructed builder's draft has status TODO, priority
\* MEDIUM, createdAt equal to updatedAt, the creatorId as given, no title and
\* an id no earlier builder has.
C9_FreshDraft ==
  [][\A c \in CreatorIds, d \in 0..1 :
       Did("new", Len(builders) + 1) /\ NewTaskBuilder(c, d) =>
         LET draft == heap'[builders'[Len(builders')]] IN
         /\ draft.status = "TODO"
         /\ draft.priority = "MEDIUM"
         /\ draft.createdAt = now
         /\ draft.updatedAt = draft.createdAt
         /\ draft.creatorId = c
         /\ draft.title = None
         /\ \A b \in 1..Len(builders) : heap[builders[b]].id # draft.id]_vars

\* C10: no call changes a draft's id, status, createdAt, updatedAt or
\* creatorId, every Task build() has returned has status TODO, and build()
\* returns the draft the builder was constructed with, so repeated build()
\* calls on one builder return the same id.
C10_BuilderKeepsIdentity ==
  [][/\ \A r \in 1..Len(heap) :
          /\ heap'[r].id = heap[r].id
          /\ heap'[r].status = heap[r].status
          /\ heap'[r].createdAt = heap[r].createdAt
          /\ heap'[r].updatedAt = heap[r].updatedAt
          /\ heap'[r].creatorId = heap[r].creatorId
     /\ \A h \in 1..Len(handles') : heap'[handles'[h]].status = "TODO"
     /\ \A b \in 1..Len(builders) :
          Did("build", b) /\ build(b) /\ last'.error = NoError =>
            heap'[last'.ret].id = heap[builders[b]].id]_vars

\* build() has returned twice on the same builder.
C10_Witness ==
  /\ Len(handles) >= 2
  /\ handles[1] = handles[2]
  /\ heap[handles[1]].status = "TODO"

====
